---- MODULE Spec2Model ----
(***************************************************************************)
(* Model of the optimizer engine of src/core/honey_badger.py               *)
(* (HoneyBadgerAlgorithm): population state, the seeded random stream,     *)
(* the search operators, elitist selection, and the two drivers            *)
(* (optimize: batch; set_optimization_problem + run_one_iteration: step).  *)
(*                                                                         *)
(* Number representation.  Candidate coordinates live on the integer grid; *)
(* a uniform draw in [0,1) is k/Res for k in 0..Res-1; products with a     *)
(* draw or with the density factor are truncated toward zero back to the   *)
(* grid.  exp(-x) is its [1/1] Pade approximant (2-x)/(2+x), pi is 22/7.   *)
(* The objective functions of src/core/functions.py are integer valued on  *)
(* the grid, so fitness values are integers; float('inf') is Inf and       *)
(* float('nan') is NaN, which every comparison goes around (Lt).           *)
(***************************************************************************)
EXTENDS Integers, Sequences, FiniteSets, TLC

\* ------------------------------------------------------------------ bounds
\* resolution of a uniform draw: random() returns k/Res, k in 0..Res-1
Res == 4
\* largest max_iter that is configured
MaxIter == 2
\* largest pop_size that is configured
MaxPop == 3

\* ------------------------------------------------------- program constants
C == 2
beta == 6
\* float('inf')
Inf == 1000000
\* float('nan'): a value an objective can return; ordered by Lt only
NaN == -1000000
\* 1 / (1e-12)^2, saturated: any value this large already moves a candidate
\* past either bound, so the clip gives the same result as with 1e24
EpsInvSq == 10000

Inst == {1, 2}
Seeds == {42, 123}
PopSizes == 2..MaxPop
MaxIters == 0..MaxIter
Dims == {1, 2}
BoundsSet == {<<-1, 3>>, <<2, 4>>}
Funcs == {"sphere", "schwefel_222"}

\* ------------------------------------------------------------------ state
VARIABLES
    hba,        \* hba[i]: the fields of optimizer instance i
    np_random,  \* state of the process-wide generator np.random
    frame,      \* frame[i]: the call of optimize in progress on instance i
    err,        \* err[i]: exception raised by the last call on instance i
    ghost       \* ghost[i]: history of instance i (not program state)

vars == <<hba, np_random, frame, err, ghost>>

\* ---------------------------------------------------------------- helpers
Abs(x) == IF x < 0 THEN -x ELSE x

\* float -> grid: truncation toward zero of a / b, b > 0
TruncDiv(a, b) == IF a >= 0 THEN a \div b ELSE -((-a) \div b)

RECURSIVE SumSeq(_)
SumSeq(s) == IF s = <<>> THEN 0 ELSE Head(s) + SumSeq(Tail(s))

RECURSIVE ProdSeq(_)
ProdSeq(s) == IF s = <<>> THEN 1 ELSE Head(s) * ProdSeq(Tail(s))

\* a < b on floats: False as soon as one side is NaN
Lt(a, b) == a # NaN /\ b # NaN /\ a < b

\* F applied to the value of e, which is computed once
Strict(F(_), e) == CHOOSE r \in {F(x) : x \in {e}} : TRUE

\* None of an Optional array field
None == <<>>

\* -------------------------------------------------- src/core/functions.py
sphere(x) == SumSeq([j \in 1..Len(x) |-> x[j] * x[j]])

schwefel_222(x) ==
    SumSeq([j \in 1..Len(x) |-> Abs(x[j])]) + ProdSeq([j \in 1..Len(x) |-> Abs(x[j])])

\* an objective that is not defined everywhere, such as np.sum(np.sqrt(x)):
\* NaN as soon as one coordinate is negative; its finite values are taken as
\* the sum of the coordinates
sqrt_sum(x) ==
    IF \E j \in 1..Len(x) : x[j] < 0 THEN NaN ELSE SumSeq([j \in 1..Len(x) |-> x[j]])

\* func(ind): call of the bound objective
Call(func, x) ==
    CASE func = "sphere" -> sphere(x)
      [] func = "schwefel_222" -> schwefel_222(x)
      [] func = "sqrt_sum" -> sqrt_sum(x)

\* ------------------------------------------------------- random generators
\* One step of a generator state (both np.random.default_rng(seed), owned by
\* an instance, and the process-wide np.random are streams of this shape).
BitGenNext(s) == (13 * s + 7) % 64

RECURSIVE Advance(_, _)
Advance(s, n) == IF n = 0 THEN s ELSE Advance(BitGenNext(s), n - 1)

\* numerator k of the n-th uniform draw k/Res taken from a stream in state s
Uniform(s, n) == (Advance(s, n) * Res) \div 64

\* the process-wide generator behind np.random.random(): one step of its
\* state, and the numerator of the n-th draw taken from state g
np_next(g) == (5 * g + 3) % 4

RECURSIVE np_advance(_, _)
np_advance(g, n) == IF n = 0 THEN g ELSE np_advance(np_next(g), n - 1)

np_uniform(g, n) == (np_advance(g, n) * Res) \div 4

\* np.random.default_rng(params.seed)
default_rng(seed) == seed % 64

\* x < 0.5 for a draw x = k/Res
LtHalf(k) == 2 * k < Res

\* rng.choice(n, 2, replace=False), from draws n1 and n1+1 of stream s
choice(s, n, n1) ==
    LET a == (Uniform(s, n1) * n) \div Res
        b == (Uniform(s, n1 + 1) * (n - 1)) \div Res
    IN  <<a + 1, IF b >= a THEN b + 2 ELSE b + 1>>

\* np.clip of one coordinate
clip(x, lower, upper) == IF x < lower THEN lower ELSE IF x > upper THEN upper ELSE x

\* cos(2*pi*k/Res), the angle taken to the quarter turn it lies in
Cos2Pi(k) ==
    LET q == (4 * k) \div Res
    IN  CASE q = 0 -> 1 [] q = 1 -> 0 [] q = 2 -> -1 [] OTHER -> 0

\* ------------------------------------------------- src/core/honey_badger.py
\* HBAParams: the configurations that are constructed (C and beta keep their
\* defaults)
HBAParams == [pop_size : PopSizes, max_iter : MaxIters, seed : Seeds]

\* HoneyBadgerAlgorithm.__init__.  `attrs' is the set of attributes that only
\* come into existence by assignment in a later method; the fields behind
\* them hold a placeholder until then.
HoneyBadgerAlgorithm(params) ==
    [ params            |-> params,
      rng               |-> default_rng(params.seed),
      population        |-> None,
      fitness           |-> None,
      best_solution     |-> None,
      best_fitness      |-> Inf,
      convergence_curve |-> <<>>,
      current_iter      |-> 0,
      attrs             |-> {},
      previous_population |-> None,
      last_intensity    |-> None,
      current_phase     |-> "",
      current_func      |-> "",
      current_dim       |-> 0,
      current_bounds    |-> <<0, 0>> ]

\* rng.uniform(lower, upper, (pop_size, dim)): pop_size * dim draws, row by row
initialize_population(self, dim, bounds) ==
    LET lower == bounds[1]
        upper == bounds[2]
        n == self.params.pop_size
    IN  [self EXCEPT
           !.population = [i \in 1..n |-> [j \in 1..dim |->
               lower + TruncDiv((upper - lower) * Uniform(self.rng, (i - 1) * dim + j), Res)]],
           !.rng = Advance(self.rng, n * dim)]

\* argmin with the comparison turned around: the first index of the maximum
argmin_turned(f) ==
    CHOOSE i \in 1..Len(f) :
        /\ \A j \in 1..Len(f) : f[i] >= f[j]
        /\ \A j \in 1..(i - 1) : f[j] < f[i]

\* np.argmin: the first index that holds the minimum; a NaN counts as the
\* minimum, so the first NaN if there is one
argmin(f) ==
    IF \E i \in 1..Len(f) : f[i] = NaN
    THEN CHOOSE i \in 1..Len(f) : f[i] = NaN /\ \A j \in 1..(i - 1) : f[j] # NaN
    ELSE CHOOSE i \in 1..Len(f) :
            /\ \A j \in 1..Len(f) : f[i] <= f[j]
            /\ \A j \in 1..(i - 1) : f[j] > f[i]

\* the fitness array of evaluate, [func(ind) for ind in self.population]
fitness_of(population, func) ==
    [i \in 1..Len(population) |-> Call(func, population[i])]

\* the incumbent test without the comparison of magnitudes: any different
\* value replaces the incumbent
improves_any(f, best_fitness) == f # best_fitness

\* the incumbent test as a comparison of magnitudes that does not know NaN
improves_unordered(f, best_fitness) == f < best_fitness

\* the incumbent test with <= : a candidate as good as the incumbent
\* replaces it
improves_or_equal(f, best_fitness) == f # NaN /\ best_fitness # NaN /\ f <= best_fitness

\* the comparison of evaluate that lets a candidate replace the incumbent
improves(f, best_fitness) == Lt(f, best_fitness)

evaluate(self, func) ==
    LET update(fit) ==
            LET min_idx == argmin(fit)
            IN  IF improves(fit[min_idx], self.best_fitness)
                THEN [self EXCEPT !.fitness = fit,
                                  !.best_fitness = fit[min_idx],
                                  !.best_solution = self.population[min_idx]]
                ELSE [self EXCEPT !.fitness = fit]
    IN  Strict(update, fitness_of(self.population, func))

\* squared Euclidean distance of two vectors
SqDist(x, y) == SumSeq([j \in 1..Len(x) |-> (x[j] - y[j]) * (x[j] - y[j])])

\* distances ** 2 without the np.where of line 47
floored_sq_unguarded(d2) == [num |-> d2, den |-> 1]

\* distances ** 2 after np.where(distances == 0, 1e-12, distances), as a
\* fraction num/den
floored_sq(d2) == IF d2 = 0 THEN [num |-> 1, den |-> EpsInvSq] ELSE [num |-> d2, den |-> 1]

\* compute_intensity with a draw of r5 for every individual
compute_intensity_each(self) ==
    LET n == self.params.pop_size
        r_idx == choice(self.rng, n, 1)
        S == SqDist(self.population[r_idx[1]], self.population[r_idx[2]])
        distances_sq ==
            [i \in 1..n |-> floored_sq(SqDist(self.best_solution, self.population[i]))]
        intensity(v) ==
            [i \in 1..n |-> [num |-> Uniform(self.rng, 2 + i) * v.S * 7 * v.dsq[i].den,
                             den |-> Res * 88 * v.dsq[i].num]]
    IN  [ intensity |-> Strict(intensity, [S |-> S, dsq |-> distances_sq]),
          rng |-> Advance(self.rng, 2 + n) ]

\* compute_intensity: draws 1,2 are the index pair, draw 3 is r5; the
\* intensity of individual i is the fraction num/den
compute_intensity(self) ==
    LET n == self.params.pop_size
        r_idx == choice(self.rng, n, 1)
        S == SqDist(self.population[r_idx[1]], self.population[r_idx[2]])
        r5 == Uniform(self.rng, 3)
        distances_sq ==
            [i \in 1..n |-> floored_sq(SqDist(self.best_solution, self.population[i]))]
        intensity(v) ==
            [i \in 1..n |-> [num |-> v.r5 * v.S * 7 * v.dsq[i].den,
                             den |-> Res * 88 * v.dsq[i].num]]
    IN  [ intensity |-> Strict(intensity, [S |-> S, r5 |-> r5, dsq |-> distances_sq]),
          rng |-> Advance(self.rng, 3) ]

\* the exception compute_intensity raises, "none" if it returns: rng.choice
\* cannot take 2 of fewer than 2 without replacement (line 43, before any
\* draw); None - ndarray is a TypeError (line 46, after the draws of line
\* 43).  best_solution is assigned together with best_fitness (lines 39-40),
\* so it is None exactly as long as best_fitness is inf.
compute_intensity_raises(self) ==
    IF self.params.pop_size < 2 THEN "ValueError"
    ELSE IF self.best_fitness = Inf THEN "TypeError"
    ELSE "none"

\* the stream after compute_intensity has raised exc
rng_after_raise(self, exc) ==
    IF exc = "TypeError" THEN Advance(self.rng, 2) ELSE self.rng

\* update_density_factor: C * exp(-current_iter / max_iter) as a fraction
update_density_factor(self) ==
    [num |-> C * (2 * self.params.max_iter - self.current_iter),
     den |-> 2 * self.params.max_iter + self.current_iter]

\* get_flag_direction, from the draw k/Res it takes
get_flag_direction(k) == IF LtHalf(k) THEN 1 ELSE -1

\* update_position_digging: individual i takes draws r2, r3, r4 and the flag
\* draw, in this order, from the stream in state rng
update_position_digging(self, rng, alpha, intensity) ==
    LET n == self.params.pop_size
        best == self.best_solution
        new(i, r) ==
            [j \in 1..Len(best) |->
               best[j]
               + TruncDiv(r.F * beta * intensity[i].num * best[j], intensity[i].den)
               + TruncDiv(r.F * r.r2 * alpha.num * (best[j] - self.population[i][j])
                            * Abs(Cos2Pi(r.r3) * (1 - Cos2Pi(r.r4))),
                          Res * alpha.den)]
        row(i) == new(i, [r2 |-> Uniform(rng, 4 * (i - 1) + 1),
                          r3 |-> Uniform(rng, 4 * (i - 1) + 2),
                          r4 |-> Uniform(rng, 4 * (i - 1) + 3),
                          F  |-> get_flag_direction(Uniform(rng, 4 * (i - 1) + 4))])
    IN  [population |-> [i \in 1..n |-> row(i)], rng |-> Advance(rng, 4 * n)]

\* update_position_honey: individual i takes r7 and the flag draw
update_position_honey(self, rng, alpha) ==
    LET n == self.params.pop_size
        best == self.best_solution
        new(i, r) ==
            [j \in 1..Len(best) |->
               best[j] + TruncDiv(r.F * r.r7 * alpha.num * (best[j] - self.population[i][j]),
                                  Res * alpha.den)]
        row(i) == new(i, [r7 |-> Uniform(rng, 2 * (i - 1) + 1),
                          F  |-> get_flag_direction(Uniform(rng, 2 * (i - 1) + 2))])
    IN  [population |-> [i \in 1..n |-> row(i)], rng |-> Advance(rng, 2 * n)]

\* np.clip(new_population, lower, upper)
clip_population(pop, bounds) ==
    [i \in 1..Len(pop) |-> [j \in 1..Len(pop[i]) |-> clip(pop[i][j], bounds[1], bounds[2])]]

\* the reversion test turned around: the old candidate is put back when it
\* is the worse one
reverts_turned(old_fitness, new_fitness) == old_fitness > new_fitness

\* the reversion test with <= : a tie puts the old candidate back
reverts_or_ties(old_fitness, new_fitness) ==
    old_fitness # NaN /\ new_fitness # NaN /\ old_fitness <= new_fitness

\* the test of the reversion loop: the old candidate is put back
reverts(old_fitness, new_fitness) == Lt(old_fitness, new_fitness)

\* the reversion loop without the assignment of the fitness (lines 118, 151)
elitist_reversion_unpaired(self, old_population, func) ==
    LET n == self.params.pop_size
        loop(old_fitness) ==
            [self EXCEPT
               !.population = [i \in 1..n |->
                   IF reverts(old_fitness[i], self.fitness[i])
                   THEN old_population[i] ELSE self.population[i]]]
    IN  Strict(loop, [i \in 1..n |-> Call(func, old_population[i])])

\* elitist reversion loop of optimize (114-118) and run_one_iteration
\* (147-151): self already holds the new population and its fitness
elitist_reversion(self, old_population, func) ==
    LET n == self.params.pop_size
        loop(old_fitness) ==
            [self EXCEPT
               !.population = [i \in 1..n |->
                   IF reverts(old_fitness[i], self.fitness[i])
                   THEN old_population[i] ELSE self.population[i]],
               !.fitness = [i \in 1..n |->
                   IF reverts(old_fitness[i], self.fitness[i])
                   THEN old_fitness[i] ELSE self.fitness[i]]]
    IN  Strict(loop, [i \in 1..n |-> Call(func, old_population[i])])

\* the tail of an iteration with the counter advanced by two
finish_iteration_twice(self, moved, func, bounds) ==
    LET old_population == self.population
        clipped(m) ==
            [self EXCEPT !.population = clip_population(m.population, bounds), !.rng = m.rng]
        evaluated(s) == evaluate(s, func)
        reverted(s) == elitist_reversion(s, old_population, func)
        recorded(s) ==
            [s EXCEPT !.convergence_curve = Append(s.convergence_curve, s.best_fitness),
                      !.current_iter = s.current_iter + 2]
    IN  Strict(recorded, Strict(reverted, Strict(evaluated, Strict(clipped, moved))))

\* the tail of an iteration, the same statements in both drivers (optimize
\* 107-121, run_one_iteration 140-154): clip, evaluate, revert, append, count
finish_iteration(self, moved, func, bounds) ==
    LET old_population == self.population
        clipped(m) ==
            [self EXCEPT !.population = clip_population(m.population, bounds), !.rng = m.rng]
        evaluated(s) == evaluate(s, func)
        reverted(s) == elitist_reversion(s, old_population, func)
        recorded(s) ==
            [s EXCEPT !.convergence_curve = Append(s.convergence_curve, s.best_fitness),
                      !.current_iter = s.current_iter + 1]
    IN  Strict(recorded, Strict(reverted, Strict(evaluated, Strict(clipped, moved))))

\* the phase draw of optimize taken from np.random, as run_one_iteration
\* takes it
optimize_phase_draw_np(self, rng) == np_uniform(np_random, 1)

\* the draw that picks the update rule in optimize (line 102)
optimize_phase_draw(self, rng) == Uniform(rng, 1)

\* optimize without the assignment of line 95: the trace is left as it was
optimize_begin_unseeded(self, func, dim, bounds) ==
    LET start(s) == [s EXCEPT !.current_iter = 0]
        evaluated(s) == evaluate(s, func)
    IN  Strict(start, Strict(evaluated, initialize_population(self, dim, bounds)))

\* optimize, lines 93-96
optimize_begin(self, func, dim, bounds) ==
    LET start(s) == [s EXCEPT !.convergence_curve = <<s.best_fitness>>, !.current_iter = 0]
        evaluated(s) == evaluate(s, func)
    IN  Strict(start, Strict(evaluated, initialize_population(self, dim, bounds)))

\* optimize, lines 99-105: the new population before the clip, and the
\* stream after the draws
optimize_move(self) ==
    LET update(v) ==
            IF LtHalf(optimize_phase_draw(self, v.ci.rng))
            THEN update_position_digging(self, Advance(v.ci.rng, 1), v.alpha, v.ci.intensity)
            ELSE update_position_honey(self, Advance(v.ci.rng, 1), v.alpha)
    IN  Strict(update, [alpha |-> update_density_factor(self), ci |-> compute_intensity(self)])

\* optimize, one pass of the loop (lines 99-121)
optimize_pass(self, func, bounds) ==
    finish_iteration(self, optimize_move(self), func, bounds)

\* the draw that picks the update rule in run_one_iteration (line 135): the
\* second draw the call takes from the process-wide np.random in state g
step_phase_draw(self, g) == np_uniform(g, 2)

\* run_one_iteration, lines 130-138: the new population before the clip, and
\* the stream after the draws
step_move(self, g) ==
    LET update(v) ==
            IF LtHalf(step_phase_draw(self, g))
            THEN update_position_digging(self, v.ci.rng, v.alpha, v.ci.intensity)
            ELSE update_position_honey(self, v.ci.rng, v.alpha)
    IN  Strict(update, [alpha |-> update_density_factor(self), ci |-> compute_intensity(self)])

\* run_one_iteration past its first line (lines 129-154); g is the state of
\* the process-wide np.random, which gives the draws of lines 133 and 135
run_step(self, g) ==
    LET phase == IF LtHalf(np_uniform(g, 1)) THEN "Digging" ELSE "Honey"
        snapshot(intensity) ==
            [self EXCEPT !.previous_population = self.population,
                         !.last_intensity = intensity,
                         !.current_phase = phase,
                         !.attrs = @ \cup {"previous_population", "last_intensity",
                                           "current_phase"}]
        finish(s) ==
            finish_iteration(s, step_move(self, g), self.current_func, self.current_bounds)
    IN  Strict(finish, Strict(snapshot, compute_intensity(self).intensity))

\* the guard of run_one_iteration off by one
completed_strict(self) == self.current_iter > self.params.max_iter

\* the guard of run_one_iteration (line 126)
completed(self) == self.current_iter >= self.params.max_iter

\* run_one_iteration up to the exception exc of compute_intensity (lines
\* 129-131): the snapshot of line 129 is taken, np.random is not drawn from
run_step_raised(self, exc) ==
    [self EXCEPT !.previous_population = self.population,
                 !.attrs = @ \cup {"previous_population"},
                 !.rng = rng_after_raise(self, exc)]

\* run_one_iteration with the snapshot of line 129 moved behind the draws of
\* lines 133 and 135: an instance without a population consumes two values of
\* np.random before it fails
run_one_iteration_drawn(self, g) ==
    IF completed(self)
    THEN [self |-> self, g |-> g, err |-> "none"]
    ELSE IF self.population = None
    THEN [self |-> self, g |-> np_advance(g, 2), err |-> "AttributeError"]
    ELSE IF compute_intensity_raises(self) # "none"
    THEN [self |-> run_step_raised(self, compute_intensity_raises(self)),
          g |-> g, err |-> compute_intensity_raises(self)]
    ELSE [self |-> run_step(self, g), g |-> np_advance(g, 2), err |-> "none"]

\* run_one_iteration: the instance and np.random after the call, and the
\* exception it raises.  Line 126 returns on a completed instance; on an
\* instance without a population None.copy() raises at line 129 before any
\* assignment.  An instance that has a population and is not completed was
\* bound by set_optimization_problem (optimize leaves current_iter =
\* max_iter), so current_func and current_bounds exist.
run_one_iteration(self, g) ==
    IF completed(self)
    THEN [self |-> self, g |-> g, err |-> "none"]
    ELSE IF self.population = None
    THEN [self |-> self, g |-> g, err |-> "AttributeError"]
    ELSE IF compute_intensity_raises(self) # "none"
    THEN [self |-> run_step_raised(self, compute_intensity_raises(self)),
          g |-> g, err |-> compute_intensity_raises(self)]
    ELSE [self |-> run_step(self, g), g |-> np_advance(g, 2), err |-> "none"]

\* set_optimization_problem
set_optimization_problem(self, func, dim, bounds) ==
    LET bound == [self EXCEPT !.current_func = func, !.current_dim = dim,
                              !.current_bounds = bounds,
                              !.attrs = @ \cup {"current_func", "current_dim",
                                                "current_bounds"}]
        initialized(s) == initialize_population(s, dim, bounds)
        evaluated(s) == evaluate(s, func)
    IN  Strict(evaluated, Strict(initialized, bound))

\* fitness values computed by one iteration: the evaluation of the clipped
\* new population and the re-evaluation of every old candidate
computed_in_iteration(self, moved, func, bounds) ==
    LET values(new_population) ==
            {Call(func, new_population[k]) : k \in 1..Len(new_population)}
    IN  Strict(values, clip_population(moved.population, bounds))
        \cup {Call(func, self.population[k]) : k \in 1..Len(self.population)}

\* the least value of S that is not NaN, Inf if there is none
SetMin(S) ==
    IF S \ {NaN} = {} THEN Inf ELSE CHOOSE x \in S \ {NaN} : \A y \in S \ {NaN} : x <= y
Min2(a, b) == IF a < b THEN a ELSE b

\* ------------------------------------------------------------ transitions
Idle == [pc |-> "idle", func |-> "", dim |-> 0, bounds |-> <<0, 0>>]

\* inits: initializations so far (2 stands for two or more); driver, problem:
\* those of the first initialization; last, bounds, init_best: driver, bounds
\* and incumbent fitness of the latest initialization; seen_min: least
\* fitness value computed so far
NoHistory ==
    [ inits |-> 0, driver |-> "none", problem |-> <<"", 0, <<0, 0>>>>,
      last |-> "none", bounds |-> <<0, 0>>, init_best |-> Inf, seen_min |-> Inf ]

FitnessValues(self) == {self.fitness[k] : k \in 1..Len(self.fitness)}

\* history after an initialization by `driver' that left the instance as s
Initialized(h, driver, func, dim, bounds, s) ==
    [ inits     |-> IF h.inits = 0 THEN 1 ELSE 2,
      driver    |-> IF h.inits = 0 THEN driver ELSE h.driver,
      problem   |-> IF h.inits = 0 THEN <<func, dim, bounds>> ELSE h.problem,
      last      |-> driver,
      bounds    |-> bounds,
      init_best |-> s.best_fitness,
      seen_min  |-> Min2(h.seen_min, SetMin(FitnessValues(s))) ]

\* two instances are constructed from one HBAParams value; np.random is
\* never seeded by the program, so its state is arbitrary
Init ==
    /\ \E p \in HBAParams : hba = [i \in Inst |-> HoneyBadgerAlgorithm(p)]
    /\ np_random \in 0..3
    /\ frame = [i \in Inst |-> Idle]
    /\ err = [i \in Inst |-> "none"]
    /\ ghost = [i \in Inst |-> NoHistory]

\* a call hba[i].set_optimization_problem(func, dim, bounds)
SetOptimizationProblem(i, func, dim, bounds) ==
    /\ frame[i].pc = "idle"
    /\ LET s == set_optimization_problem(hba[i], func, dim, bounds)
       IN  /\ hba' = [hba EXCEPT ![i] = s]
           /\ ghost' = [ghost EXCEPT ![i] =
                 Initialized(@, "step", func, dim, bounds, s)]
    /\ err' = [err EXCEPT ![i] = "none"]
    /\ UNCHANGED <<np_random, frame>>

\* a call hba[i].run_one_iteration()
RunOneIteration(i) ==
    /\ frame[i].pc = "idle"
    /\ \E r \in {run_one_iteration(hba[i], np_random)} :
          /\ hba' = [hba EXCEPT ![i] = r.self]
          /\ np_random' = r.g
          /\ err' = [err EXCEPT ![i] = r.err]
    /\ ghost' = [ghost EXCEPT ![i].seen_min =
          IF run_one_iteration(hba[i], np_random).self.current_iter = hba[i].current_iter
          THEN @
          ELSE Min2(@, SetMin(
                 computed_in_iteration(hba[i], step_move(hba[i], np_random),
                                       hba[i].current_func, hba[i].current_bounds)))]
    /\ UNCHANGED frame

\* a call hba[i].optimize(func, dim, bounds), up to the loop
OptimizeCall(i, func, dim, bounds) ==
    /\ frame[i].pc = "idle"
    /\ LET s == optimize_begin(hba[i], func, dim, bounds)
       IN  /\ hba' = [hba EXCEPT ![i] = s]
           /\ ghost' = [ghost EXCEPT ![i] =
                 Initialized(@, "batch", func, dim, bounds, s)]
    /\ frame' = [frame EXCEPT ![i] =
          [pc |-> "optimize", func |-> func, dim |-> dim, bounds |-> bounds]]
    /\ err' = [err EXCEPT ![i] = "none"]
    /\ UNCHANGED np_random

\* one pass of the loop of optimize on instance i; an exception of
\* compute_intensity (line 100) ends the call
OptimizePass(i) ==
    /\ frame[i].pc = "optimize"
    /\ hba[i].current_iter < hba[i].params.max_iter
    /\ \E exc \in {compute_intensity_raises(hba[i])} :
          IF exc # "none"
          THEN /\ hba' = [hba EXCEPT ![i].rng = rng_after_raise(hba[i], exc)]
               /\ frame' = [frame EXCEPT ![i] = Idle]
               /\ err' = [err EXCEPT ![i] = exc]
               /\ UNCHANGED ghost
          ELSE /\ hba' = [hba EXCEPT ![i] = optimize_pass(@, frame[i].func, frame[i].bounds)]
               /\ ghost' = [ghost EXCEPT ![i].seen_min = Min2(@, SetMin(
                     computed_in_iteration(hba[i], optimize_move(hba[i]),
                                           frame[i].func, frame[i].bounds)))]
               /\ UNCHANGED <<frame, err>>
    /\ UNCHANGED np_random

\* the loop of optimize is exhausted: return self.best_solution, self.best_fitness
OptimizeReturn(i) ==
    /\ frame[i].pc = "optimize"
    /\ hba[i].current_iter >= hba[i].params.max_iter
    /\ frame' = [frame EXCEPT ![i] = Idle]
    /\ UNCHANGED <<hba, np_random, err, ghost>>

\* any other code of the process draws from np.random
GlobalDraw ==
    /\ np_random' = np_next(np_random)
    /\ UNCHANGED <<hba, frame, err, ghost>>

\* an instance is initialized at most twice, the second time with the
\* dimension it already has
Rebindable(i, dim) ==
    /\ ghost[i].inits < 2
    /\ IF hba[i].population = None THEN TRUE ELSE Len(hba[i].population[1]) = dim

Next ==
    \/ GlobalDraw
    \/ \E func \in Funcs, dim \in Dims, bounds \in BoundsSet :
          Rebindable(1, dim) /\ SetOptimizationProblem(1, func, dim, bounds)
    \/ \E func \in Funcs, dim \in Dims, bounds \in BoundsSet :
          Rebindable(1, dim) /\ OptimizeCall(1, func, dim, bounds)
    \/ RunOneIteration(1)
    \/ OptimizePass(1)
    \/ OptimizeReturn(1)

Spec == Init /\ [][Next]_vars

\* Two instances side by side: each is initialized once, and the second to
\* be initialized is given the problem of the first
FreshTwin(i, func, dim, bounds) ==
    /\ ghost[i].inits = 0
    /\ \A k \in Inst \ {i} : ghost[k].inits > 0 => ghost[k].problem = <<func, dim, bounds>>

NextPair ==
    \/ GlobalDraw
    \/ \E i \in Inst, func \in Funcs, dim \in Dims, bounds \in BoundsSet :
          FreshTwin(i, func, dim, bounds) /\ SetOptimizationProblem(i, func, dim, bounds)
    \/ \E i \in Inst, func \in Funcs, dim \in Dims, bounds \in BoundsSet :
          FreshTwin(i, func, dim, bounds) /\ OptimizeCall(i, func, dim, bounds)
    \/ \E i \in Inst : RunOneIteration(i)
    \/ \E i \in Inst : OptimizePass(i)
    \/ \E i \in Inst : OptimizeReturn(i)

SpecPair == Init /\ [][NextPair]_vars

\* Configurations and problems outside the documented ranges, and an
\* objective that returns NaN: nothing in __init__, initialize_population,
\* set_optimization_problem or optimize looks at the values it is given.
\* (lower > upper is left out: what Generator.uniform does with it depends
\* on the numpy release.)
EdgeParams == [pop_size : 1..MaxPop, max_iter : (-1)..MaxIter, seed : Seeds]
EdgeFuncs == Funcs \cup {"sqrt_sum"}
EdgeDims == {0, 1}
EdgeBounds == {<<-1, 3>>, <<2, 2>>}

InitEdge ==
    /\ \E p \in EdgeParams : hba = [i \in Inst |-> HoneyBadgerAlgorithm(p)]
    /\ np_random \in 0..3
    /\ frame = [i \in Inst |-> Idle]
    /\ err = [i \in Inst |-> "none"]
    /\ ghost = [i \in Inst |-> NoHistory]

\* one instance, initialized once
NextEdge ==
    \/ GlobalDraw
    \/ \E func \in EdgeFuncs, dim \in EdgeDims, bounds \in EdgeBounds :
          ghost[1].inits = 0 /\ SetOptimizationProblem(1, func, dim, bounds)
    \/ \E func \in EdgeFuncs, dim \in EdgeDims, bounds \in EdgeBounds :
          ghost[1].inits = 0 /\ OptimizeCall(1, func, dim, bounds)
    \/ RunOneIteration(1)
    \/ OptimizePass(1)
    \/ OptimizeReturn(1)

SpecEdge == InitEdge /\ [][NextEdge]_vars

\* One instance, initialized once, that is driven on: the loop of optimize
\* is synchronous code that runs to its return, and the step driver is one
\* on which run_one_iteration keeps being called (a timer calls it in the
\* windows of src/ui).
NextLive ==
    \/ GlobalDraw
    \/ \E func \in Funcs, dim \in Dims, bounds \in BoundsSet :
          ghost[1].inits = 0 /\ SetOptimizationProblem(1, func, dim, bounds)
    \/ \E func \in Funcs, dim \in Dims, bounds \in BoundsSet :
          ghost[1].inits = 0 /\ OptimizeCall(1, func, dim, bounds)
    \/ RunOneIteration(1)
    \/ OptimizePass(1)
    \/ OptimizeReturn(1)

\* the step is a completed iteration on instance i, by either driver
IterationOn(i) == hba'[i].current_iter = hba[i].current_iter + 1

\* An iteration of instance i is due: the loop of optimize is at its test with
\* the counter below max_iter (line 98), or the instance is configured, no
\* call is in progress and the guard of run_one_iteration (line 126) lets the
\* step through.  In these states, and only in these, a step of
\* RunOneIteration(i) or OptimizePass(i) raises the counter.
IterationPending(i) ==
    /\ hba[i].current_iter < hba[i].params.max_iter
    /\ IF frame[i].pc = "optimize" THEN TRUE ELSE ghost[i].inits > 0

\* Weak fairness of the return of optimize, and weak fairness of the due
\* iteration of either driver.  The latter is WF_vars of the action
\*   (RunOneIteration(1) \/ OptimizePass(1)) /\ IterationPending(1)
\* written out as "infinitely often not enabled, or infinitely often taken",
\* with its enabling condition IterationPending(1) and its steps, the steps
\* of NextLive that raise the counter, given explicitly.
SpecLive ==
    /\ Init
    /\ [][NextLive]_vars
    /\ WF_vars(OptimizeReturn(1))
    /\ ([]<>~IterationPending(1) \/ []<><<IterationOn(1)>>_vars)

\* ------------------------------------------------------------ properties
Fresh(i) == ghost[i].inits = 1

\* i was initialized by optimize and optimize has returned
Returned(i) == ghost[i].last = "batch" /\ frame[i].pc = "idle"

SameConfiguration(a, b) ==
    hba[a].params = hba[b].params /\ ghost[a].problem = ghost[b].problem

NonIncreasing(curve) == \A k \in 1..(Len(curve) - 1) : curve[k + 1] <= curve[k]

InBounds(x, bounds) == \A j \in 1..Len(x) : bounds[1] <= x[j] /\ x[j] <= bounds[2]

\* C1: a fresh instance bound by set_optimization_problem and stepped max_iter
\* times ends with the population, fitness, incumbent and convergence trace
\* of a fresh instance of the same configuration on which optimize was called
C1_DriverEquivalence ==
    \A a \in Inst, b \in Inst :
        ( /\ Fresh(a) /\ ghost[a].driver = "step"
          /\ hba[a].current_iter = hba[a].params.max_iter
          /\ Fresh(b) /\ ghost[b].driver = "batch" /\ Returned(b)
          /\ SameConfiguration(a, b) )
        => /\ hba[a].population = hba[b].population
           /\ hba[a].fitness = hba[b].fitness
           /\ hba[a].best_solution = hba[b].best_solution
           /\ hba[a].best_fitness = hba[b].best_fitness
           /\ hba[a].convergence_curve = hba[b].convergence_curve

\* C2: two fresh instances of the same configuration on which optimize was
\* called with the same problem have, once both calls have returned, the same
\* convergence trace and the same incumbent, whatever was drawn from
\* np.random in between
C2_BatchDeterminism ==
    \A a \in Inst, b \in Inst :
        ( /\ Fresh(a) /\ ghost[a].driver = "batch" /\ Returned(a)
          /\ Fresh(b) /\ ghost[b].driver = "batch" /\ Returned(b)
          /\ SameConfiguration(a, b) )
        => /\ hba[a].convergence_curve = hba[b].convergence_curve
           /\ hba[a].best_solution = hba[b].best_solution
           /\ hba[a].best_fitness = hba[b].best_fitness

\* both calls of optimize have returned after at least one pass each, with
\* an incumbent better than the initial one
C2_Witness ==
    /\ \A i \in Inst : Fresh(i) /\ ghost[i].driver = "batch" /\ Returned(i)
    /\ hba[1].params.max_iter >= 1
    /\ hba[1].best_fitness < hba[1].convergence_curve[1]

\* C3: two fresh instances with the same seed that received the same calls
\* of set_optimization_problem and run_one_iteration have the same
\* population, incumbent and trace, under every interleaving
C3_StepIsolation ==
    \A a \in Inst, b \in Inst :
        ( /\ Fresh(a) /\ ghost[a].driver = "step"
          /\ Fresh(b) /\ ghost[b].driver = "step"
          /\ SameConfiguration(a, b)
          /\ hba[a].current_iter = hba[b].current_iter )
        => /\ hba[a].population = hba[b].population
           /\ hba[a].best_solution = hba[b].best_solution
           /\ hba[a].best_fitness = hba[b].best_fitness
           /\ hba[a].convergence_curve = hba[b].convergence_curve

\* C4: the convergence trace is non-increasing at every index in every state,
\* and no step raises the incumbent fitness
C4_Monotonicity ==
    [][\A i \in Inst :
          /\ NonIncreasing(hba'[i].convergence_curve)
          /\ hba'[i].best_fitness <= hba[i].best_fitness]_vars

\* a trace with a strict decrease, on an instance that was initialized twice
C4_Witness ==
    /\ ghost[1].inits = 2
    /\ Len(hba[1].convergence_curve) >= 2
    /\ hba[1].convergence_curve[Len(hba[1].convergence_curve)] < hba[1].convergence_curve[1]

\* C5: on a fresh instance the incumbent fitness is the least of all fitness
\* values computed so far, after initialization and after every iteration
C5_IncumbentIsMinimum ==
    \A i \in Inst : Fresh(i) => hba[i].best_fitness = ghost[i].seen_min

\* a fresh instance whose incumbent got better in an iteration that also
\* put an old candidate back
C5_Witness ==
    /\ Fresh(1)
    /\ hba[1].current_iter >= 1
    /\ hba[1].best_fitness < ghost[1].init_best
    /\ "previous_population" \in hba[1].attrs
    /\ \E k \in 1..Len(hba[1].population) :
          hba[1].population[k] = hba[1].previous_population[k]

\* C6: every coordinate of every population member and of the incumbent lies
\* within the bounds the instance was last initialized with
C6_Containment ==
    \A i \in Inst : ghost[i].inits > 0 =>
        /\ \A k \in 1..Len(hba[i].population) : InBounds(hba[i].population[k], ghost[i].bounds)
        /\ InBounds(hba[i].best_solution, ghost[i].bounds)

\* C7: an iteration of either driver raises the fitness of no individual
C7_ElitistNonRegression ==
    [][\A i \in Inst : IterationOn(i) =>
          \A k \in 1..Len(hba[i].fitness) : hba'[i].fitness[k] <= hba[i].fitness[k]]_vars

\* after a step, one individual was put back and another one moved to a
\* candidate of strictly lower fitness
C7_Witness ==
    /\ Fresh(1) /\ ghost[1].driver = "step"
    /\ hba[1].current_iter >= 1
    /\ \E k \in 1..Len(hba[1].population) :
          /\ hba[1].population[k] = hba[1].previous_population[k]
          /\ \E m \in 1..Len(hba[1].population) :
                hba[1].fitness[m] < Call(hba[1].current_func, hba[1].previous_population[m])

\* C8: on a fresh instance the trace has one entry and current_iter = 0 right
\* after set_optimization_problem, and len(convergence_curve) =
\* current_iter + 1 after every later run_one_iteration
C8_StepTraceLength ==
    \A i \in Inst : (Fresh(i) /\ ghost[i].driver = "step") =>
        /\ Len(hba[i].convergence_curve) = hba[i].current_iter + 1
        /\ "previous_population" \notin hba[i].attrs =>
              /\ hba[i].current_iter = 0
              /\ hba[i].convergence_curve = <<hba[i].best_fitness>>

\* C9: inside and after optimize, len(convergence_curve) = current_iter + 1;
\* on return the trace has max_iter + 1 entries; its first entry is the
\* incumbent fitness right after the initial evaluation
C9_BatchTraceLength ==
    \A i \in Inst : ghost[i].last = "batch" =>
        /\ Len(hba[i].convergence_curve) = hba[i].current_iter + 1
        /\ hba[i].convergence_curve[1] = ghost[i].init_best
        /\ Returned(i) => Len(hba[i].convergence_curve) = hba[i].params.max_iter + 1

\* optimize returned from a second run on an instance whose trace kept
\* growing in the loop and whose incumbent improved
C9_Witness ==
    /\ Returned(1)
    /\ ghost[1].inits = 2
    /\ Len(hba[1].convergence_curve) = 3
    /\ hba[1].convergence_curve[3] < hba[1].convergence_curve[1]

\* C10: a call of run_one_iteration with current_iter = max_iter raises
\* nothing and leaves the instance and the random streams as they are, so
\* that the call can be repeated with the same outcome
C10_CompletedIsAbsorbing ==
    \A i \in Inst :
        (frame[i].pc = "idle" /\ hba[i].current_iter = hba[i].params.max_iter)
        => run_one_iteration(hba[i], np_random)
              = [self |-> hba[i], g |-> np_random, err |-> "none"]

\* an instance that was stepped max_iter >= 1 times and on which a further
\* call of run_one_iteration has returned
C10_Witness ==
    /\ ghost[1].last = "step"
    /\ hba[1].params.max_iter >= 1
    /\ hba[1].current_iter = hba[1].params.max_iter
    /\ Len(hba[1].convergence_curve) = hba[1].params.max_iter
    /\ err[1] = "none"
    /\ run_one_iteration(hba[1], np_random).self = hba[1]

\* the step is a completed iteration on instance i: the call in progress is
\* the same and the trace got one entry longer
CompletedIteration(i) ==
    /\ frame'[i] = frame[i]
    /\ Len(hba'[i].convergence_curve) = Len(hba[i].convergence_curve) + 1

\* the step is the start of a call of optimize on instance i
OptimizeStarts(i) == frame[i].pc = "idle" /\ frame'[i].pc = "optimize"

CounterInRange(self) == 0 <= self.current_iter /\ self.current_iter <= self.params.max_iter

\* C11 as stated: current_iter goes up by exactly 1 in a completed iteration
\* and is left as it is by every other operation, and stays within
\* 0..max_iter
C11_CounterSteps ==
    [][\A i \in Inst :
          /\ IF CompletedIteration(i)
             THEN hba'[i].current_iter = hba[i].current_iter + 1
             ELSE hba'[i].current_iter = hba[i].current_iter
          /\ CounterInRange(hba'[i])]_vars

\* C11 amended: current_iter goes up by exactly 1 in a completed iteration,
\* is set to 0 by the start of optimize, is left as it is by every other
\* operation, and stays within 0..max_iter
C11_CounterStepsOrReset ==
    [][\A i \in Inst :
          /\ IF CompletedIteration(i)
             THEN hba'[i].current_iter = hba[i].current_iter + 1
             ELSE IF OptimizeStarts(i)
             THEN hba'[i].current_iter = 0
             ELSE hba'[i].current_iter = hba[i].current_iter
          /\ CounterInRange(hba'[i])]_vars

\* optimize ran twice on one instance, each time for max_iter >= 1 passes
C11_Witness ==
    /\ ghost[1].inits = 2
    /\ ghost[1].driver = "batch" /\ Returned(1)
    /\ hba[1].params.max_iter >= 1
    /\ hba[1].current_iter = hba[1].params.max_iter

\* C12: an instance with pop_size < 2 that was given a problem (by
\* set_optimization_problem or optimize) raised InvalidConfiguration, has no
\* population, and its stream is where the seed put it
C12_PopSizeRejected ==
    \A i \in Inst : (ghost[i].inits > 0 /\ hba[i].params.pop_size < 2) =>
        /\ err[i] = "InvalidConfiguration"
        /\ hba[i].population = None
        /\ hba[i].rng = default_rng(hba[i].params.seed)

\* dim < 1, max_iter < 0 or lower >= upper
InvalidProblem(self, dim, bounds) ==
    dim < 1 \/ self.params.max_iter < 0 \/ bounds[1] >= bounds[2]

\* C13: an instance that was given a problem with dim < 1, max_iter < 0 or
\* lower >= upper raised InvalidConfiguration and has no population, no
\* incumbent and no trace
C13_ConfigurationRejected ==
    \A i \in Inst :
        (ghost[i].inits > 0 /\ InvalidProblem(hba[i], ghost[i].problem[2], ghost[i].problem[3])) =>
            /\ err[i] = "InvalidConfiguration"
            /\ hba[i].population = None
            /\ hba[i].best_fitness = Inf
            /\ hba[i].convergence_curve = <<>>

\* C14: on an instance whose initialization returned without an exception
\* and whose objective is finite everywhere, no call of run_one_iteration
\* and no pass of optimize raises
C14_NoErrorMidRun ==
    \A i \in Inst : (ghost[i].inits > 0 /\ ghost[i].problem[1] \in Funcs) => err[i] = "none"

\* the step is a call of run_one_iteration on instance i that performs an
\* iteration
StepIteration(i) == frame[i].pc = "idle" /\ IterationOn(i)

\* C15: after a call of run_one_iteration that performs an iteration,
\* current_phase is "Digging" exactly when the draw that picked the update
\* rule picked update_position_digging, and "Honey" exactly when it picked
\* update_position_honey
C15_PhaseNamesRule ==
    [][\A i \in Inst : StepIteration(i) =>
          /\ hba'[i].current_phase \in {"Digging", "Honey"}
          /\ hba'[i].current_phase = "Digging"
                <=> LtHalf(step_phase_draw(hba[i], np_random))]_vars

\* the streams after an iteration that took `phase' draws from the source
\* of its phase draw and applied one rule to all pop_size individuals:
\* 3 draws for the intensity, then 4 per individual (digging) or 2 (honey)
OnePhaseDraw(i) ==
    LET n == hba[i].params.pop_size
    IN  IF frame[i].pc = "idle"
        THEN /\ np_random' = np_advance(np_random, 1)
             /\ hba'[i].rng \in {Advance(hba[i].rng, 3 + 4 * n), Advance(hba[i].rng, 3 + 2 * n)}
        ELSE /\ np_random' = np_random
             /\ hba'[i].rng \in {Advance(hba[i].rng, 4 + 4 * n), Advance(hba[i].rng, 4 + 2 * n)}

\* C16: an iteration of either driver takes exactly one draw for the phase
\* and applies the one rule it selects to the whole population
C16_SinglePhaseDraw ==
    [][\A i \in Inst : IterationOn(i) => OnePhaseDraw(i)]_vars

\* the step initializes instance i for the second time
Reinitializes(i) == ghost[i].inits = 1 /\ ghost'[i].inits = 2

\* C17: when a used instance is initialized again, afterwards current_iter
\* is 0, the trace has exactly one entry, and the incumbent is the best
\* candidate of the newly drawn population
C17_NoPartialRebuild ==
    [][\A i \in Inst : Reinitializes(i) =>
          /\ hba'[i].current_iter = 0
          /\ Len(hba'[i].convergence_curve) = 1
          /\ hba'[i].best_fitness = SetMin(FitnessValues(hba'[i]))
          /\ hba'[i].best_solution = hba'[i].population[argmin(hba'[i].fitness)]]_vars

\* C18: in every state in which an iteration can start, the divisor
\* 4*pi*distance_i^2 of every individual is positive, and for an individual
\* at the position of the incumbent it is the divisor of the floor 1e-12
C18_DegeneracyGuard ==
    \A i \in Inst : hba[i].population # None =>
        \A k \in 1..hba[i].params.pop_size :
            \E in \in {compute_intensity(hba[i]).intensity[k]} :
                /\ in.den > 0
                /\ hba[i].population[k] = hba[i].best_solution =>
                      in.den = Res * 88 /\ in.num % EpsInvSq = 0

\* a step was taken in which an individual stood on the incumbent while the
\* two chosen individuals were apart and r5 was positive: its intensity is
\* the large finite value the floor gives
C18_Witness ==
    /\ "last_intensity" \in hba[1].attrs
    /\ hba[1].current_iter >= 1
    /\ \E k \in 1..Len(hba[1].last_intensity) :
          /\ hba[1].last_intensity[k].den = Res * 88
          /\ hba[1].last_intensity[k].num >= EpsInvSq

\* C19: with an objective that returns NaN for some candidates, the
\* incumbent fitness is never NaN and no entry of the trace is NaN
C19_NaNNeverIncumbent ==
    \A i \in Inst :
        /\ hba[i].best_fitness # NaN
        /\ \A k \in 1..Len(hba[i].convergence_curve) : hba[i].convergence_curve[k] # NaN

\* an iteration was completed whose evaluation met a NaN: the fitness array
\* holds it, the incumbent and the trace hold finite values
C19_Witness ==
    /\ hba[1].current_iter >= 1
    /\ \E k \in 1..Len(hba[1].fitness) : hba[1].fitness[k] = NaN
    /\ hba[1].best_fitness < Inf
    /\ Len(hba[1].convergence_curve) >= 1

\* the lowest index at which f holds the value v
FirstIndexOf(f, v) == CHOOSE k \in 1..Len(f) : f[k] = v /\ \A j \in 1..(k - 1) : f[j] # v

\* C20: a step that leaves the incumbent fitness as it is leaves the
\* incumbent vector as it is; the incumbent is replaced only together with a
\* strictly lower incumbent fitness, and the new incumbent is then the
\* candidate with the lowest index among those that have that fitness
C20_IncumbentTies ==
    [][\A i \in Inst :
          /\ hba'[i].best_fitness = hba[i].best_fitness
                => hba'[i].best_solution = hba[i].best_solution
          /\ hba'[i].best_fitness # hba[i].best_fitness
                => /\ hba'[i].best_fitness < hba[i].best_fitness
                   /\ hba'[i].best_solution =
                         hba'[i].population[FirstIndexOf(hba'[i].fitness, hba'[i].best_fitness)]]_vars

\* a step moved an individual to a candidate that is as good as the
\* incumbent and lies elsewhere, and the incumbent of the initial evaluation
\* is still in place
C20_Witness ==
    /\ Fresh(1) /\ ghost[1].driver = "step"
    /\ hba[1].current_iter >= 1
    /\ hba[1].best_fitness = ghost[1].init_best
    /\ \E k \in 1..Len(hba[1].fitness) :
          /\ hba[1].fitness[k] = hba[1].best_fitness
          /\ hba[1].population[k] # hba[1].best_solution
          /\ hba[1].population[k] # hba[1].previous_population[k]

\* the attributes behind the auxiliary queries
AuxFields == {"previous_population", "last_intensity", "current_phase"}

\* C21: previous_population, last_intensity and current_phase exist on every
\* instance in every state, from construction on
C21_AuxFieldsDefined ==
    \A i \in Inst : AuxFields \subseteq hba[i].attrs

\* objective and bounds of the iteration that the step performs on instance
\* i, and the clipped new population it evaluates
IterFunc(i) == IF frame[i].pc = "optimize" THEN frame[i].func ELSE hba[i].current_func
IterBounds(i) == IF frame[i].pc = "optimize" THEN frame[i].bounds ELSE hba[i].current_bounds
NewCandidates(i) ==
    clip_population(
        (IF frame[i].pc = "optimize" THEN optimize_move(hba[i])
                                     ELSE step_move(hba[i], np_random)).population,
        IterBounds(i))

\* C22 as stated: after an iteration, for every index the pair (population,
\* fitness) is the pair before the iteration if and only if the old fitness
\* is strictly lower than that of the clipped new candidate, and is the new
\* candidate with its fitness otherwise
C22_ReversionIff ==
    [][\A i \in Inst : IterationOn(i) =>
          \E new \in {NewCandidates(i)} :
             \A k \in 1..hba[i].params.pop_size :
                \E fo \in {Call(IterFunc(i), hba[i].population[k])} :
                \E fn \in {Call(IterFunc(i), new[k])} :
                   /\ (hba'[i].population[k] = hba[i].population[k] /\ hba'[i].fitness[k] = fo)
                         <=> Lt(fo, fn)
                   /\ ~Lt(fo, fn) => hba'[i].population[k] = new[k] /\ hba'[i].fitness[k] = fn]_vars

\* C22 amended: after an iteration, for every index the pair is the pair
\* before the iteration if the old fitness is strictly lower than that of
\* the clipped new candidate, and is the new candidate with its fitness
\* otherwise (which may be the same pair, when the new candidate is the old)
C22_ReversionRule ==
    [][\A i \in Inst : IterationOn(i) =>
          \E new \in {NewCandidates(i)} :
             \A k \in 1..hba[i].params.pop_size :
                \E fo \in {Call(IterFunc(i), hba[i].population[k])} :
                \E fn \in {Call(IterFunc(i), new[k])} :
                   IF Lt(fo, fn)
                   THEN hba'[i].population[k] = hba[i].population[k] /\ hba'[i].fitness[k] = fo
                   ELSE hba'[i].population[k] = new[k] /\ hba'[i].fitness[k] = fn]_vars

\* a step put one individual back and moved another one to a different
\* candidate of the same fitness
C22_Witness ==
    /\ Fresh(1) /\ ghost[1].driver = "step"
    /\ hba[1].current_iter >= 1
    /\ \E k \in 1..Len(hba[1].population) : \E m \in 1..Len(hba[1].population) :
          /\ hba[1].population[k] = hba[1].previous_population[k]
          /\ hba[1].fitness[k] < hba[1].fitness[m]
          /\ hba[1].population[m] # hba[1].previous_population[m]
          /\ hba[1].fitness[m] = Call(hba[1].current_func, hba[1].previous_population[m])

\* C23: whenever the trace is not empty, its last entry is the incumbent
\* fitness
C23_TraceEndsAtIncumbent ==
    \A i \in Inst : hba[i].convergence_curve # <<>> =>
        hba[i].convergence_curve[Len(hba[i].convergence_curve)] = hba[i].best_fitness

\* intensity is r5 * S / (4 * pi * d_k^2) for every k, with one r5 and with
\* S the squared distance of one pair of distinct individuals of self
SharedIntensity(self, intensity) ==
    \E a \in 1..self.params.pop_size : \E b \in (1..self.params.pop_size) \ {a} :
    \E r5 \in 0..(Res - 1) :
        \A k \in 1..self.params.pop_size :
            \E dsq \in {floored_sq(SqDist(self.best_solution, self.population[k]))} :
                intensity[k] =
                    [num |-> r5 * SqDist(self.population[a], self.population[b]) * 7 * dsq.den,
                     den |-> Res * 88 * dsq.num]

\* C24: an iteration of either driver draws one pair of distinct indices
\* and one r5 (three steps of the stream), and every entry of the intensity
\* vector is built from that S and that r5 and the individual's own
\* distance to the incumbent; a step exposes that vector as last_intensity
C24_SharedIntensityDraws ==
    [][\A i \in Inst : IterationOn(i) =>
          \E ci \in {compute_intensity(hba[i])} :
              /\ SharedIntensity(hba[i], ci.intensity)
              /\ ci.rng = Advance(hba[i].rng, 3)
              /\ StepIteration(i) => hba'[i].last_intensity = ci.intensity]_vars

\* a step computed positive intensities that differ between two individuals
C24_Witness ==
    /\ "last_intensity" \in hba[1].attrs
    /\ \E k \in 1..Len(hba[1].last_intensity) : \E m \in 1..Len(hba[1].last_intensity) :
          /\ hba[1].last_intensity[k].num > 0
          /\ hba[1].last_intensity[m].num > 0
          /\ hba[1].last_intensity[k] # hba[1].last_intensity[m]

\* the objective instance i is working on after the step
FuncAfter(i) == IF frame'[i].pc = "optimize" THEN frame'[i].func ELSE hba'[i].current_func

\* C25: after every step that changes an instance that has a population
\* (an initialization or an iteration of either driver), fitness[k] is the
\* objective at population[k] for every k
C25_FitnessPairing ==
    [][\A i \in Inst : (hba'[i] # hba[i] /\ hba'[i].population # None) =>
          hba'[i].fitness = fitness_of(hba'[i].population, FuncAfter(i))]_vars

\* after a step in which one individual was put back and another one moved
\* to a better candidate, every fitness value is that of its candidate
C25_Witness ==
    /\ Fresh(1) /\ ghost[1].driver = "step"
    /\ hba[1].current_iter >= 1
    /\ hba[1].fitness = fitness_of(hba[1].population, hba[1].current_func)
    /\ \E k \in 1..Len(hba[1].population) : \E m \in 1..Len(hba[1].population) :
          /\ hba[1].population[k] = hba[1].previous_population[k]
          /\ hba[1].population[m] # hba[1].previous_population[m]
          /\ hba[1].fitness[m] < Call(hba[1].current_func, hba[1].previous_population[m])
          /\ hba[1].fitness[m] # hba[1].fitness[k]

\* instance i was initialized, no call is in progress on it, and
\* current_iter = max_iter
Completed(i) ==
    /\ ghost[i].inits > 0
    /\ frame[i].pc = "idle"
    /\ hba[i].current_iter = hba[i].params.max_iter

\* C26: an initialized instance that is driven on reaches Completed; it got
\* there by exactly max_iter iterations (the trace holds one entry for each,
\* and the initial one under optimize); and Completed is never left
C26_Termination ==
    /\ [](ghost[1].inits > 0 => <>Completed(1))
    /\ [](Completed(1) =>
            Len(hba[1].convergence_curve)
               = hba[1].params.max_iter + (IF ghost[1].last = "batch" THEN 1 ELSE 0))
    /\ [][Completed(1) => Completed(1)']_vars

\* the step driver has reached Completed by MaxIter iterations
C26_Witness ==
    /\ Completed(1)
    /\ ghost[1].last = "step"
    /\ hba[1].params.max_iter = MaxIter
    /\ "current_phase" \in hba[1].attrs

\* C27: with max_iter = 0 the guard of line 126 holds from construction on and
\* the loop of optimize (line 98) is never entered: the counter stays 0, no
\* error is raised, run_one_iteration returns the instance and np.random as
\* they are, the incumbent is the one the initialization found, and the trace
\* of optimize is the one entry of line 95.
C27_ZeroIterations ==
    \A i \in Inst :
       hba[i].params.max_iter = 0 =>
          /\ completed(hba[i])
          /\ hba[i].current_iter = 0
          /\ err[i] = "none"
          /\ run_one_iteration(hba[i], np_random)
                = [self |-> hba[i], g |-> np_random, err |-> "none"]
          /\ ghost[i].inits > 0 => hba[i].best_fitness = ghost[i].init_best
          /\ ghost[i].last = "batch" =>
                hba[i].convergence_curve = <<ghost[i].init_best>>

C27_Witness ==
    /\ hba[1].params.max_iter = 0
    /\ Returned(1)
    /\ Fresh(1)
    /\ hba[1].best_solution # None
    /\ Len(hba[1].convergence_curve) = 1

\* C28: on an instance initialized once, after the initialization and after
\* every completed iteration of either driver, the least fitness value of the
\* population is the incumbent fitness.
C28_PopulationHoldsIncumbent ==
    \A i \in Inst :
       Fresh(i) => SetMin(FitnessValues(hba[i])) = hba[i].best_fitness

\* all iterations are done, and they found an incumbent better than the one
\* of the initial population
C28_Witness ==
    /\ Fresh(1)
    /\ frame[1].pc = "idle"
    /\ hba[1].current_iter = MaxIter
    /\ hba[1].best_fitness < ghost[1].init_best
    /\ SetMin(FitnessValues(hba[1])) = hba[1].best_fitness

\* C29: when the evaluation of the initial population (incumbent fitness
\* inf before it) meets a NaN and a finite fitness value, the incumbent
\* fitness after it is the least finite value.  The population and fitness
\* array are those of the initialization as long as no iteration was
\* completed.
C29_NaNDoesNotBlockUpdate ==
    \A i \in Inst :
       ( /\ ghost[i].inits = 1
         /\ hba[i].current_iter = 0
         /\ NaN \in FitnessValues(hba[i])
         /\ FitnessValues(hba[i]) # {NaN} )
       => hba[i].best_fitness = SetMin(FitnessValues(hba[i]))

\* C30: on a constructed instance with max_iter > 0 that was never
\* initialized, run_one_iteration ends in the AttributeError of line 129 and
\* returns the instance and np.random as they are; whatever was called on it
\* so far, the instance is as the constructor left it: no population, no
\* incumbent, empty trace, counter 0, generator as seeded.
C30_UnconfiguredStepFails ==
    \A i \in Inst :
       (ghost[i].inits = 0 /\ hba[i].params.max_iter > 0) =>
          /\ run_one_iteration(hba[i], np_random)
                = [self |-> hba[i], g |-> np_random, err |-> "AttributeError"]
          /\ hba[i] = HoneyBadgerAlgorithm(hba[i].params)
          /\ hba[i].population = None /\ hba[i].best_solution = None
          /\ hba[i].best_fitness = Inf
          /\ hba[i].convergence_curve = <<>> /\ hba[i].current_iter = 0
          /\ hba[i].rng = default_rng(hba[i].params.seed)

\* run_one_iteration was called on the instance as constructed, and failed
C30_Witness ==
    /\ ghost[1].inits = 0
    /\ hba[1].params.max_iter > 0
    /\ err[1] = "AttributeError"
    /\ hba[1] = HoneyBadgerAlgorithm(hba[1].params)
====
